---- MODULE Spec2Model ----
(***************************************************************************)
(* A model of the MerkleTree of src/src/merkle_tree.rs and of the two-tree *)
(* scenario of src/examples/proofs.rs.                                     *)
(*                                                                         *)
(* Byte strings are sequences of symbols.  A Hash (the 32-byte array) is   *)
(* the symbolic digest of the bytes that were hashed: the digest oracle is *)
(* modelled as an injective, non-identity function on byte strings, which  *)
(* is a collision-free oracle.  Hashes are compared                        *)
(* lexicographically, as Rust compares [u8; 32].  Vec indices are 0-based  *)
(* as in the source; Option<T> is the empty sequence (None) or the         *)
(* one-element sequence (Some(v)).                                         *)
(***************************************************************************)
EXTENDS Integers, Sequences, FiniteSets, TLC

\* Number of distinct ordinary items callers may pass.
NumAtoms == 2
\* Largest number of items given to build in the single-tree specification.
MaxBuild == 3
\* Largest number of leaves inserts grow that tree to.
MaxLeaves == 5
\* Largest number of items of each tree when a proof crosses two trees.
MaxPairLeaves == 3
\* Largest number of items of each tree when two roots are compared.
MaxCommitLeaves == 4

VARIABLES
    items,       \* the items given to build and insert so far, in order (history)
    tree,        \* Option<MerkleTree>: None, or Some(levels) once build succeeded
    otherItems,  \* items of the second tree (corrupt_items of examples/proofs.rs)
    otherTree,   \* Option<MerkleTree> of the second tree
    query        \* the last operation called, its arguments and what it returned

vars == <<items, tree, otherItems, otherTree, query>>

None == <<>>
Some(v) == <<v>>

\* Vec::get / slice::get with a 0-based index.
VecGet(v, i) == IF i >= 0 /\ i < Len(v) THEN Some(v[i + 1]) ELSE None

---------------------------------------------------------------------------
(* The digest oracle and the byte-wise order of hashes.                    *)

\* MerkleTree::hash: deterministic and injective; the digest of a byte
\* string is a fresh value that determines the bytes hashed.
hash(bytes) == <<0>> \o bytes

\* Ord for [u8; 32] (lexicographic), used by sort(): the first position
\* from i on where a and b differ decides; a proper prefix is the smaller.
RECURSIVE LessFrom(_, _, _)
LessFrom(a, b, i) ==
    IF i > Len(b) THEN FALSE
    ELSE IF i > Len(a) THEN TRUE
    ELSE IF a[i] # b[i] THEN a[i] < b[i]
    ELSE LessFrom(a, b, i + 1)

LessBytes(a, b) == LessFrom(a, b, 1)

\* Insertion of h into an ascending sequence.
RECURSIVE InsertSorted(_, _)
InsertSorted(sorted, h) ==
    IF sorted = <<>> THEN <<h>>
    ELSE IF LessBytes(h, sorted[1]) THEN <<h>> \o sorted
    ELSE <<sorted[1]>> \o InsertSorted(Tail(sorted), h)

\* Vec::sort on a vector of hashes.
RECURSIVE sort(_)
sort(v) == IF v = <<>> THEN <<>> ELSE InsertSorted(sort(Tail(v)), v[1])

\* <[[u8; 32]]>::as_flattened: the hashes' bytes one after the other.
RECURSIVE as_flattened(_)
as_flattened(v) == IF v = <<>> THEN <<>> ELSE v[1] \o as_flattened(Tail(v))

\* The ordinary items, and one 64-byte item whose bytes are those of two
\* hashes in ascending order (items are arbitrary bytes).
AtomItems == {<<i>> : i \in 1..NumAtoms}
ConcatItem == as_flattened(sort(<<hash(<<1>>), hash(<<2>>)>>))
Items == AtomItems \cup {ConcatItem}

SeqsUpTo(S, n) == UNION {[1..k -> S] : k \in 0..n}

---------------------------------------------------------------------------
(* Tree construction.                                                      *)

\* merkle_parent that hashes the smaller child only.
merkle_parent_first_child(children) == hash(sort(children)[1])

\* merkle_parent that forgets to sort the children.
merkle_parent_unsorted(children) == hash(as_flattened(children))

\* MerkleTree::merkle_parent
merkle_parent(children) == hash(as_flattened(sort(children)))

\* slice::chunks_exact(2): consecutive pairs; a remainder is dropped.
chunks_exact2(v) == [j \in 1..(Len(v) \div 2) |-> <<v[2 * j - 1], v[2 * j]>>]

\* Padding that duplicates the first hash instead of the last.
pad_duplicate_first(level) ==
    IF Len(level) % 2 = 1 THEN Append(level, level[1]) ELSE level

\* The clone of the level, extended by its last hash when its length is odd.
pad_level(level) ==
    IF Len(level) % 2 = 1 THEN Append(level, level[Len(level)]) ELSE level

\* merkle_parent_level without the padding: chunks_exact drops the odd hash.
merkle_parent_level_no_padding(level) ==
    IF Len(level) = 1 THEN None
    ELSE LET chunks == chunks_exact2(level)
         IN  Some([j \in 1..Len(chunks) |-> merkle_parent(chunks[j])])

\* MerkleTree::merkle_parent_level
merkle_parent_level(level) ==
    IF Len(level) = 1 THEN None
    ELSE LET chunks == chunks_exact2(pad_level(level))
         IN  Some([j \in 1..Len(chunks) |-> merkle_parent(chunks[j])])

\* The while-let loop of construct_levels.
RECURSIVE push_parents(_)
push_parents(lvls) ==
    LET next == merkle_parent_level(lvls[Len(lvls)])
    IN  IF next = None THEN lvls ELSE push_parents(Append(lvls, next[1]))

\* MerkleTree::construct_levels
construct_levels(leaves) == push_parents(<<leaves>>)

\* The leaves of build: each item hashed, in input order.
hash_items(its) == [i \in 1..Len(its) |-> hash(its[i])]

\* MerkleTree::build: Option of the level stack.
build(its) ==
    IF its = <<>> THEN None ELSE Some(construct_levels(hash_items(its)))

\* insert that puts the new leaf first.
insert_leaves_front(lvls, item) == <<hash(item)>> \o lvls[1]

\* The leaves insert rebuilds from: levels[0] with the new hash pushed.
insert_leaves(lvls, item) == Append(lvls[1], hash(item))

\* self.levels[0] panics on an empty level stack.
insert_panics(lvls) == lvls = <<>>

\* MerkleTree::insert: the new level stack.
insert(lvls, item) == construct_levels(insert_leaves(lvls, item))

---------------------------------------------------------------------------
(* Queries.                                                                *)

\* levels.last().unwrap().first().unwrap() panics when either is absent.
root_panics(lvls) == lvls = <<>> \/ lvls[Len(lvls)] = <<>>

\* MerkleTree::root
root(lvls) == lvls[Len(lvls)][1]

\* get_parent that rounds the parent index up.
get_parent_round_up(lvls, level, index) ==
    LET parent_index == (index + 1) \div 2
        parent_level == level + 1
        lvl == VecGet(lvls, parent_level)
        parent == IF lvl = None THEN None ELSE VecGet(lvl[1], parent_index)
    IN  IF parent = None THEN None
        ELSE Some([level |-> parent_level, index |-> parent_index, hash |-> parent[1]])

\* MerkleTree::get_parent
get_parent(lvls, level, index) ==
    LET parent_index == index \div 2
        parent_level == level + 1
        lvl == VecGet(lvls, parent_level)
        parent == IF lvl = None THEN None ELSE VecGet(lvl[1], parent_index)
    IN  IF parent = None THEN None
        ELSE Some([level |-> parent_level, index |-> parent_index, hash |-> parent[1]])

\* get_sibling that always looks to the right.
get_sibling_always_right(lvls, level, index) ==
    LET sibling_index == index + 1
        lvl == VecGet(lvls, level)
        sibling == IF lvl = None THEN None ELSE VecGet(lvl[1], sibling_index)
    IN  IF sibling = None THEN None
        ELSE Some([level |-> level, index |-> sibling_index, hash |-> sibling[1]])

\* MerkleTree::get_sibling
get_sibling(lvls, level, index) ==
    LET sibling_index == IF index % 2 = 1 THEN index - 1 ELSE index + 1
        lvl == VecGet(lvls, level)
        sibling == IF lvl = None THEN None ELSE VecGet(lvl[1], sibling_index)
    IN  IF sibling = None THEN None
        ELSE Some([level |-> level, index |-> sibling_index, hash |-> sibling[1]])

\* Iterator::position: the 0-based index of the first match.
position(level, h) ==
    LET hits == {i \in 0..(Len(level) - 1) : level[i + 1] = h}
    IN  IF hits = {} THEN None
        ELSE Some(CHOOSE i \in hits : \A k \in hits : i <= k)

\* The while-let loop of proof_of_inclusion.
RECURSIVE proof_walk(_, _, _)
proof_walk(lvls, current, proof) ==
    LET parent == get_parent(lvls, current.level, current.index)
    IN  IF parent = None THEN proof
        ELSE LET sibling == get_sibling(lvls, current.level, current.index)
                 step == IF sibling = None THEN current.hash ELSE sibling[1].hash
             IN  proof_walk(lvls, parent[1], Append(proof, step))

\* proof_of_inclusion that answers an absent hash with an empty proof.
proof_of_inclusion_absent_empty(lvls, h) ==
    LET level0 == VecGet(lvls, 0)
        index == IF level0 = None THEN None ELSE position(level0[1], h)
    IN  IF index = None THEN Some(<<>>)
        ELSE Some(proof_walk(lvls, [level |-> 0, index |-> index[1], hash |-> h], <<>>))

\* MerkleTree::proof_of_inclusion: Option of the proof path.
proof_of_inclusion(lvls, h) ==
    LET level0 == VecGet(lvls, 0)
        index == IF level0 = None THEN None ELSE position(level0[1], h)
    IN  IF index = None THEN None
        ELSE Some(proof_walk(lvls, [level |-> 0, index |-> index[1], hash |-> h], <<>>))

\* The fold of validate_proof.
RECURSIVE fold_proof(_, _)
fold_proof(acc, proof) ==
    IF proof = <<>> THEN acc
    ELSE fold_proof(merkle_parent(<<acc, proof[1]>>), Tail(proof))

\* self.levels[0] panics on an empty level stack.
contains_hash_panics(lvls) == lvls = <<>>

\* MerkleTree::contains_hash
contains_hash(lvls, h) == \E i \in 1..Len(lvls[1]) : lvls[1][i] = h

\* validate_proof that first requires the hash to be a leaf.
validate_proof_leaves_only(lvls, h, proof) ==
    contains_hash(lvls, h) /\ fold_proof(h, proof) = root(lvls)

\* MerkleTree::validate_proof
validate_proof(lvls, h, proof) == fold_proof(h, proof) = root(lvls)

---------------------------------------------------------------------------
(* The state machine: a caller of the public operations.                   *)

NoQuery ==
    [op |-> "none", arg |-> <<>>, hash |-> <<>>, proof |-> <<>>, index |-> 0,
     optProof |-> None, bool |-> FALSE, panic |-> FALSE]

HasTree == tree # None
HasOther == otherTree # None

\* Queries take &self and leave the tree as it is, and what a query returns
\* depends on the tree only: the record of a query is overwritten by the
\* next call, and a query is taken from the state a build or an insert
\* left, which is the tree any number of queries since would have left.
Fresh == query.op \in {"build", "insert"}

\* MerkleTree.levels of the tree, and of the second tree.
levels == tree[1]
otherLevels == otherTree[1]

\* Every hash of every level of a level stack.
TreeHashes(lvls) == UNION {{lvls[k][i] : i \in 1..Len(lvls[k])} : k \in 1..Len(lvls)}

\* The hashes callers ask about: those of the tree and those of any item.
HashCandidates ==
    IF HasTree /\ Fresh THEN TreeHashes(levels) \cup {hash(it) : it \in Items} ELSE {}

Suffixes(p) == {SubSeq(p, j, Len(p)) : j \in 1..(Len(p) + 1)}

\* The proofs callers present: the proofs of the leaves, their suffixes
\* (the empty proof among them), and each proof with one more hash.
ProofCandidates ==
    IF HasTree /\ Fresh
    THEN LET proofs == {proof_of_inclusion(levels, levels[1][i])[1] :
                            i \in 1..Len(levels[1])}
         IN  UNION {Suffixes(p) \cup {Append(p, root(levels))} : p \in proofs}
    ELSE {}

Init ==
    /\ items = <<>>
    /\ tree = None
    /\ otherItems = <<>>
    /\ otherTree = None
    /\ query = NoQuery

\* MerkleTree::build(&its)
Build(its) ==
    /\ ~HasTree
    /\ tree' = build(its)
    /\ items' = IF build(its) = None THEN items ELSE its
    /\ query' = [NoQuery EXCEPT !.op = "build", !.arg = its,
                                !.bool = (build(its) # None)]
    /\ UNCHANGED <<otherItems, otherTree>>

\* tree.insert(&item)
Insert(item) ==
    /\ HasTree
    /\ Len(items) < MaxLeaves
    /\ IF insert_panics(levels)
       THEN /\ query' = [NoQuery EXCEPT !.op = "insert", !.arg = item, !.panic = TRUE]
            /\ UNCHANGED <<tree, items>>
       ELSE /\ tree' = Some(insert(levels, item))
            /\ items' = Append(items, item)
            /\ query' = [NoQuery EXCEPT !.op = "insert", !.arg = item]
    /\ UNCHANGED <<otherItems, otherTree>>

\* tree.root()
Root ==
    /\ HasTree
    /\ Fresh
    /\ query' = IF root_panics(levels)
                THEN [NoQuery EXCEPT !.op = "root", !.panic = TRUE]
                ELSE [NoQuery EXCEPT !.op = "root", !.hash = root(levels)]
    /\ UNCHANGED <<items, tree, otherItems, otherTree>>

\* tree.contains_hash(&h)
ContainsHash(h) ==
    /\ HasTree
    /\ Fresh
    /\ query' = IF contains_hash_panics(levels)
                THEN [NoQuery EXCEPT !.op = "contains_hash", !.hash = h, !.panic = TRUE]
                ELSE [NoQuery EXCEPT !.op = "contains_hash", !.hash = h,
                                     !.bool = contains_hash(levels, h)]
    /\ UNCHANGED <<items, tree, otherItems, otherTree>>

\* tree.proof_of_inclusion(&h)
ProofOfInclusion(h) ==
    /\ HasTree
    /\ Fresh
    /\ query' = [NoQuery EXCEPT !.op = "proof_of_inclusion", !.hash = h,
                                !.optProof = proof_of_inclusion(levels, h)]
    /\ UNCHANGED <<items, tree, otherItems, otherTree>>

\* tree.validate_proof(&h, &p)
ValidateProof(h, p) ==
    /\ HasTree
    /\ Fresh
    /\ query' = IF root_panics(levels)
                THEN [NoQuery EXCEPT !.op = "validate_proof", !.hash = h, !.proof = p,
                                     !.panic = TRUE]
                ELSE [NoQuery EXCEPT !.op = "validate_proof", !.hash = h, !.proof = p,
                                     !.bool = validate_proof(levels, h, p)]
    /\ UNCHANGED <<items, tree, otherItems, otherTree>>

Next ==
    \/ ~HasTree /\ \E its \in SeqsUpTo(Items, MaxBuild) : Build(its)
    \/ \E item \in Items : Insert(item)
    \/ Root
    \/ \E h \in HashCandidates : ContainsHash(h)
    \/ \E h \in HashCandidates : ProofOfInclusion(h)
    \/ \E p \in ProofCandidates : \E h \in HashCandidates : ValidateProof(h, p)

Spec == Init /\ [][Next]_vars

---------------------------------------------------------------------------
(* The two-tree scenario of examples/proofs.rs and of                      *)
(* tests::test_validate_wrong_proof: a tree, a second tree built from      *)
(* other items, a proof generated against the second tree and validated    *)
(* against the first.                                                      *)

\* MerkleTree::build(&corrupt_items)
BuildOther(its) ==
    /\ HasTree
    /\ ~HasOther
    /\ build(its) # None
    /\ otherTree' = build(its)
    /\ otherItems' = its
    /\ query' = [NoQuery EXCEPT !.op = "build_other", !.arg = its]
    /\ UNCHANGED <<items, tree>>

\* corrupt_tree.proof_of_inclusion(&hash(corrupt_items[i]))
ProofOther(i) ==
    /\ HasTree
    /\ HasOther
    /\ i \in 0..(Len(otherItems) - 1)
    /\ query' = [NoQuery EXCEPT
                    !.op = "proof_other", !.index = i,
                    !.hash = hash(otherItems[i + 1]),
                    !.optProof = proof_of_inclusion(otherLevels, hash(otherItems[i + 1]))]
    /\ UNCHANGED <<items, tree, otherItems, otherTree>>

\* merkle_tree.validate_proof(&corrupt_hash, &corrupt_proof)
ValidateOriginal ==
    /\ query.op = "proof_other"
    /\ query.optProof # None
    /\ query' = [NoQuery EXCEPT
                    !.op = "validate_original", !.index = query.index,
                    !.hash = query.hash, !.proof = query.optProof[1],
                    !.bool = validate_proof(levels, query.hash, query.optProof[1])]
    /\ UNCHANGED <<items, tree, otherItems, otherTree>>

PairInputs == SeqsUpTo(Items, MaxPairLeaves) \ {<<>>}

\* The second tree is built from a modified sequence of the same length.
NextPair ==
    \/ ~HasTree /\ \E its \in PairInputs : Build(its)
    \/ HasTree /\ ~HasOther /\
            \E its \in PairInputs : Len(its) = Len(items) /\ BuildOther(its)
    \/ \E i \in 0..(MaxPairLeaves - 1) : ProofOther(i)
    \/ ValidateOriginal

SpecPair == Init /\ [][NextPair]_vars

\* Two trees built from any two non-empty sequences of ordinary items.
CommitInputs == SeqsUpTo(AtomItems, MaxCommitLeaves) \ {<<>>}

NextCommit ==
    \/ ~HasTree /\ \E its \in CommitInputs : Build(its)
    \/ HasTree /\ ~HasOther /\ \E its \in CommitInputs : BuildOther(its)

SpecCommit == Init /\ [][NextCommit]_vars

---------------------------------------------------------------------------
(* Helpers of the properties.                                              *)

\* 2^k
RECURSIVE Pow2(_)
Pow2(k) == IF k = 0 THEN 1 ELSE 2 * Pow2(k - 1)

\* The index of the root level (the tree height).
Height == Len(levels) - 1

\* The 0-based index in level 0 of the first occurrence of h.
FirstIndex(h) == position(levels[1], h)[1]

\* The hash at level k (0-based) on the path from leaf index i to the root.
PathNode(i, k) == levels[k + 1][(i \div Pow2(k)) + 1]

\* The number of occurrences of h in a level.
Count(level, h) == Cardinality({i \in 1..Len(level) : level[i] = h})

LeafIndices == 0..(Len(levels[1]) - 1)

\* build or insert has just returned a tree.  Queries leave the tree as it
\* is, so every reachable tree is the tree of such a state, and what is
\* stated of the tree alone is stated there.
TreeReturned == HasTree /\ Fresh

---------------------------------------------------------------------------
(* C1 *)

\* C1: after build(S) and any inserts x1..xk, the whole level stack (hence
\* the root) is the one build(S + [x1..xk]) produces; level 0 holds the
\* hashes of S + [x1..xk] in that order, so old leaves keep their indices
\* and each new leaf is last.
C1_InsertEquivalence ==
    TreeReturned =>
        /\ tree = build(items)
        /\ root(levels) = root(build(items)[1])
        /\ levels[1] = hash_items(items)

\* Two inserts have been applied to a built tree of MaxBuild leaves, the
\* last of them a duplicate of an earlier item.
C1_Witness ==
    /\ HasTree
    /\ query.op = "insert"
    /\ Len(items) = MaxBuild + 2
    /\ query.arg = items[1]
    /\ items[Len(items)] = query.arg
    /\ items[2] # items[1]

---------------------------------------------------------------------------
(* C2 *)

\* C2: for every hash of level 0 of a reachable tree, proof_of_inclusion
\* succeeds and validate_proof accepts the hash with that proof; and a
\* validate_proof call made with a leaf and its proof returned true.
C2_ProofSoundness ==
    /\ TreeReturned =>
          \A i \in LeafIndices :
             LET h == levels[1][i + 1]
                 p == proof_of_inclusion(levels, h)
             IN  /\ p # None
                 /\ ~root_panics(levels)
                 /\ validate_proof(levels, h, p[1])
    /\ (/\ query.op = "validate_proof"
        /\ contains_hash(levels, query.hash)
        /\ Some(query.proof) = proof_of_inclusion(levels, query.hash))
       => (query.bool /\ ~query.panic)

\* validate_proof returned true for the last leaf of a five-leaf tree (the
\* padded slot of an odd level) with its own proof, in a tree where another
\* hash occurs twice.
C2_Witness ==
    /\ HasTree
    /\ query.op = "validate_proof"
    /\ Len(levels[1]) = 5
    /\ query.hash = levels[1][5]
    /\ Count(levels[1], query.hash) = 1
    /\ levels[1][1] = levels[1][3]
    /\ Some(query.proof) = proof_of_inclusion(levels, query.hash)
    /\ Len(query.proof) = 3
    /\ query.proof[1] = query.hash
    /\ query.bool

---------------------------------------------------------------------------
(* C3 *)

\* The item at index i of the second tree differs from the item at index i
\* of the first, the two item sequences have the same length, and the proof
\* generated for it against the second tree was validated against the first.
CrossValidated ==
    /\ HasTree
    /\ HasOther
    /\ query.op = "validate_original"
    /\ Len(otherItems) = Len(items)
    /\ otherItems[query.index + 1] # items[query.index + 1]

\* C3 as stated: whenever S' has the length of S and S'[i] # S[i], the
\* proof of hash(S'[i]) generated against build(S') does not validate
\* against build(S).
C3_CrossTreeProofRejected_Original == CrossValidated => ~query.bool

\* C3 amended: the same, provided S' differs from S at index i only, or
\* hash(S'[i]) is not a leaf hash of build(S).
C3_CrossTreeProofRejected ==
    (/\ CrossValidated
     /\ \/ \A j \in 1..Len(items) : j # query.index + 1 => otherItems[j] = items[j]
        \/ ~contains_hash(levels, query.hash))
    => ~query.bool

\* A proof for a modified item of a three-item sequence that also differs
\* elsewhere was generated against the modified tree and rejected by the
\* original tree.
C3_Witness ==
    /\ CrossValidated
    /\ Len(items) = 3
    /\ query.index = 2
    /\ otherItems[1] # items[1]
    /\ ~contains_hash(levels, query.hash)
    /\ Len(query.proof) = 2
    /\ ~query.bool

---------------------------------------------------------------------------
(* C4 *)

\* C4: two trees built from non-empty item sequences with equal roots have
\* the same number of items and the same multiset of leaf hashes.
C4_RootCommitsToAllItems ==
    (HasTree /\ HasOther /\ root(levels) = root(otherLevels)) =>
        /\ Len(items) = Len(otherItems)
        /\ \A h \in TreeHashes(<<levels[1], otherLevels[1]>>) :
             Count(levels[1], h) = Count(otherLevels[1], h)

---------------------------------------------------------------------------
(* C5 *)

---------------------------------------------------------------------------
(* C6 *)

\* ceil(n / 2)
CeilHalf(n) == (n + 1) \div 2

\* C6: a reachable tree has at least one level; level 0 has one hash per
\* item given so far; a level of length L > 1 is followed by a level of
\* length ceil(L/2); exactly one level has length 1, it is the last one and
\* holds root(); five leaves give the level sizes 5, 3, 2, 1.
C6_TreeShape ==
    TreeReturned =>
        /\ Len(levels) >= 1
        /\ Len(levels[1]) = Len(items)
        /\ \A k \in 1..Len(levels) :
             Len(levels[k]) > 1 =>
                 /\ k < Len(levels)
                 /\ Len(levels[k + 1]) = CeilHalf(Len(levels[k]))
        /\ {k \in 1..Len(levels) : Len(levels[k]) = 1} = {Len(levels)}
        /\ ~root_panics(levels)
        /\ levels[Len(levels)] = <<root(levels)>>
        /\ Len(items) = 5 => [k \in 1..Len(levels) |-> Len(levels[k])] = <<5, 3, 2, 1>>

\* An insert has produced a five-leaf tree: the level sizes are 5, 3, 2, 1.
C6_Witness ==
    /\ HasTree
    /\ query.op = "insert"
    /\ Len(items) = 5
    /\ Len(levels) = 4
    /\ Len(levels[2]) = 3

---------------------------------------------------------------------------
(* C7 *)

\* C7: for every level of a reachable tree of length L > 1,
\* merkle_parent_level yields the next level of the stack, of length
\* ceil(L/2), whose element j is the parent of elements 2j and 2j+1, or of
\* the last element with itself when L is odd and 2j = L-1; for L = 1 it
\* yields None and the level is the last of the stack.
C7_LevelBuilder ==
    TreeReturned =>
        \A k \in 1..Len(levels) :
            LET lvl == levels[k]
                L == Len(lvl)
                next == merkle_parent_level(lvl)
            IN  IF L = 1
                THEN next = None /\ k = Len(levels)
                ELSE /\ next # None
                     /\ k < Len(levels)
                     /\ levels[k + 1] = next[1]
                     /\ Len(next[1]) = CeilHalf(L)
                     /\ \A j \in 0..(CeilHalf(L) - 1) :
                          next[1][j + 1] =
                              IF 2 * j + 1 < L
                              THEN merkle_parent(<<lvl[2 * j + 1], lvl[2 * j + 2]>>)
                              ELSE merkle_parent(<<lvl[L], lvl[L]>>)

\* A three-leaf tree whose first and last leaves differ has been built: the
\* second parent is the last leaf paired with itself.
C7_Witness ==
    /\ HasTree
    /\ query.op = "build"
    /\ Len(levels[1]) = 3
    /\ levels[1][1] # levels[1][3]
    /\ levels[2][2] = merkle_parent(<<levels[1][3], levels[1][3]>>)
    /\ levels[2][2] # merkle_parent(<<levels[1][1], levels[1][1]>>)

---------------------------------------------------------------------------
(* C8 *)

\* C8: for a hash h whose first occurrence in level 0 is at index i, the
\* proof has length Height; with m = floor(i / 2^k), its k-th element is
\* levels[k][m-1] when m is odd, levels[k][m+1] when m is even and m+1 is in
\* range, and levels[k][m] otherwise, which happens exactly when m is the
\* last index of an odd-length level.
C8_ProofPathShape ==
    TreeReturned =>
        \A n \in LeafIndices :
            LET h == levels[1][n + 1]
                i == FirstIndex(h)
                p == proof_of_inclusion(levels, h)
            IN  /\ p # None
                /\ Len(p[1]) = Height
                /\ \A k \in 0..(Height - 1) :
                     LET m == i \div Pow2(k)
                         lvl == levels[k + 1]
                     IN  /\ m < Len(lvl)
                         /\ p[1][k + 1] =
                              IF m % 2 = 1 THEN lvl[(m - 1) + 1]
                              ELSE IF m + 1 < Len(lvl) THEN lvl[(m + 1) + 1]
                              ELSE lvl[m + 1]
                         /\ (m % 2 = 0 /\ ~(m + 1 < Len(lvl)))
                              <=> (m = Len(lvl) - 1 /\ Len(lvl) % 2 = 1)

\* proof_of_inclusion answered for the leaf at index 2 of a five-leaf tree
\* with distinct siblings on the path: the proof is levels[0][3],
\* levels[1][0], levels[2][1].
C8_Witness ==
    /\ HasTree
    /\ query.op = "proof_of_inclusion"
    /\ Len(levels[1]) = 5
    /\ query.hash = levels[1][3]
    /\ FirstIndex(query.hash) = 2
    /\ levels[1][4] # levels[1][3]
    /\ query.optProof = Some(<<levels[1][4], levels[2][1], levels[3][2]>>)

---------------------------------------------------------------------------
(* C9 *)

\* The smaller and the larger of two hashes in byte-wise order.
MinHash(a, b) == IF LessBytes(b, a) THEN b ELSE a
MaxHash(a, b) == IF LessBytes(b, a) THEN a ELSE b

\* C9: for all hashes a, b of the tree or of any item, the parent of (a, b)
\* is the parent of (b, a), and is the digest of the smaller followed by the
\* larger.
C9_CombinerSymmetry ==
    TreeReturned =>
        \A a, b \in TreeHashes(levels) \cup {hash(it) : it \in Items} :
            /\ merkle_parent(<<a, b>>) = merkle_parent(<<b, a>>)
            /\ merkle_parent(<<a, b>>) = hash(MinHash(a, b) \o MaxHash(a, b))

\* A two-leaf tree whose left leaf is the larger hash has been built: its
\* root is the digest of the right leaf followed by the left.
C9_Witness ==
    /\ HasTree
    /\ query.op = "build"
    /\ Len(levels[1]) = 2
    /\ LessBytes(levels[1][2], levels[1][1])
    /\ root(levels) = hash(levels[1][2] \o levels[1][1])
    /\ root(levels) # hash(levels[1][1] \o levels[1][2])

---------------------------------------------------------------------------
(* C10 *)

\* C10: for every leaf hash h with proof p and every level j from 0 to
\* Height, validate_proof accepts the node of level j on the path from h to
\* the root with the proof p[j..]; in particular it accepts the root with
\* the empty proof.
C10_InteriorNodesValidate ==
    TreeReturned =>
        /\ validate_proof(levels, root(levels), <<>>)
        /\ \A n \in LeafIndices :
             LET h == levels[1][n + 1]
                 i == FirstIndex(h)
                 p == proof_of_inclusion(levels, h)[1]
             IN  \A j \in 0..Height :
                     validate_proof(levels, PathNode(i, j), SubSeq(p, j + 1, Height))

\* validate_proof returned true for an interior node of a five-leaf tree,
\* with the tail of a leaf's proof, although contains_hash rejects that node
\* and proof_of_inclusion yields None for it.
C10_Witness ==
    /\ HasTree
    /\ query.op = "validate_proof"
    /\ Len(levels[1]) = 5
    /\ query.hash = levels[2][2]
    /\ query.proof = <<levels[2][1], levels[3][2]>>
    /\ ~contains_hash(levels, query.hash)
    /\ proof_of_inclusion(levels, query.hash) = None
    /\ query.bool

====
